---- MODULE Spec2Model ----
(***************************************************************************)
(* Model of dataMapper (src/unnamed/part_000): the mapping of one subgraph *)
(* snapshot to the nodes and edges of the diagram.                         *)
(*                                                                         *)
(* Ids are lower-cased fixed-width hex addresses; an address is modelled   *)
(* by its numeric value, so that the lexicographic order Array.sort() puts *)
(* on two ids is the order of the numbers.  A template string such as      *)
(* `${token}-${source}-${target}` is modelled by the tuple of its parts:   *)
(* no part holds a "-", so the string determines the parts.                *)
(* Numeric fields of the snapshot are strings; Number and BigInt parse     *)
(* them through DecValue.  A JS number is a record [k, v] so that NaN,     *)
(* Infinity and -Infinity are values of their own.                         *)
(* An optional flag that is not set (undefined) is FALSE: the code only    *)
(* ever tests such a flag for truthiness.                                  *)
(* The fields chain, address, label, type, position (nodes) and animated,  *)
(* type, token.symbol (edges) are constant decorations and are left out.   *)
(***************************************************************************)
EXTENDS Integers, Sequences, FiniteSets, TLC

VARIABLES data, pc, nodesButRedundant, nodes, edgesButRedundant, edges, latestBlock

vars == <<data, pc, nodesButRedundant, nodes, edgesButRedundant, edges, latestBlock>>

(***************************************************************************)
(* Bounds                                                                  *)
(***************************************************************************)
\* most relation records (accounts, pools, memberships, distributorships,
\* streams) of one snapshot
MaxRecords == 2
\* most per-token balance snapshots of one selected account
MaxSnapshots == 2

(***************************************************************************)
(* Numbers                                                                 *)
(***************************************************************************)
\* the decimal strings the snapshots use, with their values
DecValue ==
    ("-7" :> -7) @@ ("0" :> 0) @@ ("1" :> 1) @@ ("2" :> 2) @@ ("3" :> 3) @@
    ("5" :> 5) @@ ("7" :> 7) @@ ("30" :> 30) @@ ("50" :> 50) @@ ("100" :> 100) @@
    ("200" :> 200) @@ ("1000" :> 1000)

\* a string that is no number
NotANumber == "abc"

IsDecimal(s) == s \in DOMAIN DecValue

Int_(n) == [k |-> "int", v |-> n]
NaN == [k |-> "nan", v |-> 0]
PosInf == [k |-> "inf", v |-> 1]
NegInf == [k |-> "inf", v |-> -1]
Undefined == [k |-> "undefined", v |-> 0]

\* Number(s): NaN for a string that is no number, never an exception
Number(s) == IF IsDecimal(s) THEN Int_(DecValue[s]) ELSE NaN

\* BigInt(s) throws a SyntaxError for a string that is no integer
BigIntThrows(s) == ~IsDecimal(s)
BigInt(s) == DecValue[s]

\* a <= b on JS numbers (false when either is NaN)
NumLeq(a, b) ==
    CASE a.k = "nan" \/ b.k = "nan" -> FALSE
      [] a.k = "int" /\ b.k = "int" -> a.v <= b.v
      [] a.k = "inf" /\ b.k = "inf" -> a.v <= b.v
      [] a.k = "inf" -> a.v < 0
      [] OTHER -> b.v > 0

\* Math.min(...s): Infinity for no argument, NaN if any argument is NaN
MathMin(s) ==
    IF Len(s) = 0 THEN PosInf
    ELSE IF \E i \in 1..Len(s) : s[i].k = "nan" THEN NaN
    ELSE s[CHOOSE i \in 1..Len(s) : \A j \in 1..Len(s) : NumLeq(s[i], s[j])]

\* Math.max(...s): -Infinity for no argument, NaN if any argument is NaN
MathMax(s) ==
    IF Len(s) = 0 THEN NegInf
    ELSE IF \E i \in 1..Len(s) : s[i].k = "nan" THEN NaN
    ELSE s[CHOOSE i \in 1..Len(s) : \A j \in 1..Len(s) : NumLeq(s[j], s[i])]

\* a ?? b: b only when a is null or undefined
Nullish(a, b) == IF a = Undefined THEN b ELSE a

\* bigint division truncates toward zero
BigIntDiv(a, b) ==
    IF (a >= 0) = (b >= 0) THEN (IF a >= 0 THEN a ELSE -a) \div (IF b >= 0 THEN b ELSE -b)
    ELSE -((IF a >= 0 THEN a ELSE -a) \div (IF b >= 0 THEN b ELSE -b))

(***************************************************************************)
(* Sequences                                                               *)
(***************************************************************************)
\* Array.prototype.map
Map(s, F(_)) == [i \in 1..Len(s) |-> F(s[i])]

\* Array.prototype.flat
RECURSIVE Flat(_)
Flat(ss) == IF Len(ss) = 0 THEN <<>> ELSE Head(ss) \o Flat(Tail(ss))

Indices(n) == [i \in 1..n |-> i]

\* lodash groupBy followed by Object.entries, on the keys ks[i] of the items:
\* one group per distinct key, the groups in the order of their first item
\* (the keys are no array indices, so the object keeps insertion order), each
\* group the positions of its items in their order.
groupBy(ks) ==
    LET first == SelectSeq(Indices(Len(ks)), LAMBDA i : \A j \in 1..(i - 1) : ks[j] # ks[i])
    IN  [g \in 1..Len(first) |->
            SelectSeq(Indices(Len(ks)), LAMBDA i : ks[i] = ks[first[g]])]

(***************************************************************************)
(* mapNodes                                                                *)
(***************************************************************************)
\* the four Number(...) conversions of a record's own block/timestamp fields
NumberStamps(x) ==
    [createdAtBlockNumber |-> Number(x.createdAtBlockNumber),
     createdAtTimestamp   |-> Number(x.createdAtTimestamp),
     updatedAtBlockNumber |-> Number(x.updatedAtBlockNumber),
     updatedAtTimestamp   |-> Number(x.updatedAtTimestamp)]

PartialNode(id, isPool, isSuperApp, isSelected, stamps) ==
    [id |-> id,
     data |-> [isPool |-> isPool, isSuperApp |-> isSuperApp, isSelected |-> isSelected]
              @@ stamps]

nodeFromAccount(x) ==
    LET snaps == x.accountTokenSnapshots
    IN  PartialNode(x.id, FALSE, x.isSuperApp, TRUE,
          [createdAtBlockNumber |->
              Nullish(MathMin(Map(snaps, LAMBDA y : Number(y.createdAtBlockNumber))),
                      Number(x.createdAtBlockNumber)),
           createdAtTimestamp |->
              Nullish(MathMin(Map(snaps, LAMBDA y : Number(y.createdAtTimestamp))),
                      Number(x.createdAtTimestamp)),
           updatedAtBlockNumber |->
              Nullish(MathMax(Map(snaps, LAMBDA y : Number(y.updatedAtBlockNumber))),
                      Number(x.updatedAtBlockNumber)),
           updatedAtTimestamp |->
              Nullish(MathMax(Map(snaps, LAMBDA y : Number(y.updatedAtTimestamp))),
                      Number(x.updatedAtTimestamp))])

nodesFromAccounts(d) == Map(d.selectedAccounts, nodeFromAccount)

nodesFromPools(d) ==
    Map(d.selectedPools, LAMBDA x : PartialNode(x.id, TRUE, FALSE, TRUE, NumberStamps(x)))

\* data.poolMembers.concat(data.selectedPools.map((x) => x.poolMembers).flat())
allPoolMembers(d) ==
    d.poolMembers \o Flat(Map(d.selectedPools, LAMBDA x : x.poolMembers))

\* data.poolDistributors.concat(data.selectedPools.map((x) => x.poolDistributors).flat())
allPoolDistributors(d) ==
    d.poolDistributors \o Flat(Map(d.selectedPools, LAMBDA x : x.poolDistributors))

\* the pool and the account of one membership or distributorship
nodesFromPoolRelation(x) ==
    << PartialNode(x.pool.id, TRUE, FALSE, FALSE, NumberStamps(x.pool)),
       PartialNode(x.account.id, FALSE, x.account.isSuperApp, FALSE, NumberStamps(x)) >>

nodesFromPoolMembers(d) == Flat(Map(allPoolMembers(d), nodesFromPoolRelation))

nodesFromPoolDistributors(d) == Flat(Map(allPoolDistributors(d), nodesFromPoolRelation))

nodesFromStreams(d) ==
    Flat(Map(d.streams, LAMBDA x :
        << PartialNode(x.receiver.id, FALSE, x.receiver.isSuperApp, FALSE, NumberStamps(x)),
           PartialNode(x.sender.id, FALSE, x.sender.isSuperApp, FALSE, NumberStamps(x)) >>))

\* variant: the candidates of the streams are left out as well
mapNodesButRedundant_noStreams(d) ==
    nodesFromAccounts(d) \o nodesFromPoolMembers(d) \o nodesFromPoolDistributors(d)

\* nodesFromPools is computed and not spread into the list
mapNodesButRedundant(d) ==
    nodesFromAccounts(d) \o nodesFromPoolMembers(d) \o nodesFromPoolDistributors(d)
        \o nodesFromStreams(d)

\* one group of candidates with the same id, merged
mergeNodes(nodeFromDifferentSources) ==
    LET root == nodeFromDifferentSources[1]
        some(F(_)) == \E i \in 1..Len(nodeFromDifferentSources) : F(nodeFromDifferentSources[i])
    IN  IF Len(nodeFromDifferentSources) = 1 THEN root
        ELSE [id |-> root.id,
              data |->
                [isPool |-> some(LAMBDA x : x.data.isPool),
                 isSuperApp |-> some(LAMBDA x : x.data.isSuperApp),
                 isSelected |-> some(LAMBDA x : x.data.isSelected),
                 createdAtBlockNumber |->
                    MathMin(Map(nodeFromDifferentSources, LAMBDA x : x.data.createdAtBlockNumber)),
                 createdAtTimestamp |->
                    MathMin(Map(nodeFromDifferentSources, LAMBDA x : x.data.createdAtTimestamp)),
                 updatedAtBlockNumber |->
                    MathMax(Map(nodeFromDifferentSources, LAMBDA x : x.data.updatedAtBlockNumber)),
                 updatedAtTimestamp |->
                    MathMax(Map(nodeFromDifferentSources, LAMBDA x : x.data.updatedAtTimestamp))]]

\* variant: the candidates are not grouped by id
uniqMergedNodes_ungrouped(cands) == cands

uniqMergedNodes(cands) ==
    LET groups == groupBy(Map(cands, LAMBDA x : x.id))
    IN  [g \in 1..Len(groups) |-> mergeNodes(Map(groups[g], LAMBDA i : cands[i]))]

(***************************************************************************)
(* mapEdges                                                                *)
(***************************************************************************)
PartialEdge(token, source, target, flowRate) ==
    [id |-> <<token, source, target>>, source |-> source, target |-> target,
     data |-> [token |-> token, flowRate |-> flowRate]]

edgeFromPoolDistributor(x) ==
    PartialEdge(x.pool.token.id, x.account.id, x.pool.id, BigInt(x.flowRate))

\* variant: the division is done before the multiplication
memberFlowRate_divideFirst(x) ==
    IF BigInt(x.units) > 0
    THEN BigIntDiv(BigInt(x.pool.flowRate), BigInt(x.units)) * BigInt(x.pool.totalUnits)
    ELSE 0

\* the share of one member in the flow of its pool
memberFlowRate(x) ==
    IF BigInt(x.units) > 0
    THEN BigIntDiv(BigInt(x.pool.flowRate) * BigInt(x.pool.totalUnits), BigInt(x.units))
    ELSE 0

edgeFromPoolMember(x) ==
    PartialEdge(x.pool.token.id, x.pool.id, x.account.id, memberFlowRate(x))

edgeFromStream(x) ==
    PartialEdge(x.token.id, x.sender.id, x.receiver.id, BigInt(x.currentFlowRate))

\* some BigInt(...) that mapEdges evaluates is given a string that is no integer
mapEdgesThrows(d) ==
    \/ \E i \in 1..Len(allPoolDistributors(d)) : BigIntThrows(allPoolDistributors(d)[i].flowRate)
    \/ \E i \in 1..Len(allPoolMembers(d)) :
          LET x == allPoolMembers(d)[i]
          IN  IF BigIntThrows(x.units) THEN TRUE
              ELSE IF BigInt(x.units) > 0
                   THEN BigIntThrows(x.pool.flowRate) \/ BigIntThrows(x.pool.totalUnits)
                   ELSE FALSE
    \/ \E i \in 1..Len(d.streams) : BigIntThrows(d.streams[i].currentFlowRate)

mapEdgesButRedundant(d) ==
    Map(allPoolMembers(d), edgeFromPoolMember) \o Map(d.streams, edgeFromStream)
        \o Map(allPoolDistributors(d), edgeFromPoolDistributor)

RECURSIVE sumFlowRates(_)
sumFlowRates(es) ==
    IF Len(es) = 0 THEN 0 ELSE sumFlowRates(SubSeq(es, 1, Len(es) - 1)) + es[Len(es)].data.flowRate

\* variant: the first candidate of a group is kept as it is
mergeEdges_rootOnly(edgesFromDifferentSources) == edgesFromDifferentSources[1]

\* one group of candidates with the same id, merged
mergeEdges(edgesFromDifferentSources) ==
    LET root == edgesFromDifferentSources[1]
    IN  IF Len(edgesFromDifferentSources) = 1 THEN root
        ELSE [root EXCEPT !.data.flowRate = sumFlowRates(edgesFromDifferentSources)]

uniqEdges(cands) ==
    LET groups == groupBy(Map(cands, LAMBDA x : x.id))
    IN  [g \in 1..Len(groups) |-> mergeEdges(Map(groups[g], LAMBDA i : cands[i]))]

\* variant: the endpoints are joined without sort()
sameNodesKey_unsorted(x) == <<x.source, x.target>>

\* [x.source, x.target].sort().join("-")
sameNodesKey(x) ==
    IF x.source <= x.target THEN <<x.source, x.target>> ELSE <<x.target, x.source>>

\* the position of item i in group grp (indexOf: -1 when it is not there)
indexOf(grp, i) ==
    IF \E p \in 1..Len(grp) : grp[p] = i
    THEN (CHOOSE p \in 1..Len(grp) : grp[p] = i /\ \A q \in 1..(p - 1) : grp[q] # i) - 1
    ELSE -1

edgesWithFullData(uniq) ==
    LET keys == Map(uniq, sameNodesKey)
        edgesBetweenSameNodes == groupBy(keys)
        groupOf(i) == edgesBetweenSameNodes[
            CHOOSE g \in 1..Len(edgesBetweenSameNodes) : keys[edgesBetweenSameNodes[g][1]] = keys[i]]
    IN  [i \in 1..Len(uniq) |->
            [id |-> uniq[i].id, source |-> uniq[i].source, target |-> uniq[i].target,
             data |-> [token |-> uniq[i].data.token, flowRate |-> uniq[i].data.flowRate,
                       something |-> [length |-> Len(groupOf(i)),
                                      index |-> indexOf(groupOf(i), i)]]]]


(***************************************************************************)
(* Snapshots                                                               *)
(***************************************************************************)
Addr == {1, 2, 3}
PoolIds == {2, 3}
SuperApps == {2}

Stamps(cb, ct, ub, ut) ==
    [createdAtBlockNumber |-> cb, createdAtTimestamp |-> ct,
     updatedAtBlockNumber |-> ub, updatedAtTimestamp |-> ut]

S1 == Stamps("1", "2", "2", "3")
S2 == Stamps("2", "1", "3", "2")
S3 == Stamps("3", "3", "5", "5")
SBad == Stamps(NotANumber, "1", "2", NotANumber)

Account(a) == [id |-> a, isSuperApp |-> a \in SuperApps]

Pool(p, flowRate, totalUnits, stamps) ==
    [id |-> p, token |-> [id |-> 1], flowRate |-> flowRate, totalUnits |-> totalUnits]
        @@ stamps

\* the pools of the well-formed snapshots
PoolOf(p) == IF p = 2 THEN Pool(2, "7", "3", S2) ELSE Pool(p, "5", "2", S1)

Member(pool, a, units, stamps) ==
    [pool |-> pool, account |-> Account(a), units |-> units] @@ stamps

Distributor(pool, a, flowRate, stamps) ==
    [pool |-> pool, account |-> Account(a), flowRate |-> flowRate] @@ stamps

Stream(s, r, t, flowRate, stamps) ==
    [sender |-> Account(s), receiver |-> Account(r), token |-> [id |-> t],
     currentFlowRate |-> flowRate] @@ stamps

SelectedAccount(a, isSuperApp, stamps, snaps) ==
    [id |-> a, isSuperApp |-> isSuperApp, accountTokenSnapshots |-> snaps] @@ stamps

SelectedPool(pool, members, distributors) ==
    [id |-> pool.id, poolMembers |-> members, poolDistributors |-> distributors]
        @@ Stamps(pool.createdAtBlockNumber, pool.createdAtTimestamp,
                  pool.updatedAtBlockNumber, pool.updatedAtTimestamp)

Meta == [block |-> [number |-> 7, timestamp |-> 100]]
NoMeta == [absent |-> TRUE]

Snapshot(accounts, pools, members, distributors, streams, meta) ==
    [selectedAccounts |-> accounts, selectedPools |-> pools, poolMembers |-> members,
     poolDistributors |-> distributors, streams |-> streams, _meta |-> meta]

SeqsOf(S, n) == [1..n -> S]

\* --- well-formed snapshots of at most MaxRecords records
SelectedAccountRecs ==
    { SelectedAccount(a, b, S1, sn) : a \in Addr, b \in BOOLEAN, sn \in {<<>>, <<S2>>} }

MemberRecs(p) == { Member(PoolOf(p), a, u, S1) : a \in Addr \ {p}, u \in {"0", "2"} }

DistributorRecs(p) == { Distributor(PoolOf(p), a, "5", S2) : a \in Addr \ {p} }

StreamRecs ==
    { Stream(sr[1], sr[2], 1, "100", S1) : sr \in { x \in Addr \X Addr : x[1] # x[2] } }
    \cup { Stream(sr[1], sr[2], 1, "30", S2) : sr \in { x \in Addr \X Addr : x[1] # x[2] } }
    \cup { Stream(sr[1], sr[2], 2, "100", S2) : sr \in { x \in Addr \X Addr : x[1] # x[2] } }

\* the (memberships, distributorships) a selected pool embeds, of at most n records
Embedded(p, n) ==
    UNION { { <<ms, ds>> : ms \in SeqsOf(MemberRecs(p), k[1]), ds \in SeqsOf(DistributorRecs(p), k[2]) }
            : k \in { x \in (0..n) \X (0..n) : x[1] + x[2] <= n } }

\* the selected pools of at most n records, embedded ones counted
RECURSIVE SelectedPoolSeqs(_)
SelectedPoolSeqs(n) ==
    IF n <= 0 THEN { <<>> }
    ELSE { <<>> } \cup
         UNION { UNION { { <<SelectedPool(PoolOf(p), e[1], e[2])>> \o rest :
                             rest \in SelectedPoolSeqs(n - 1 - Len(e[1]) - Len(e[2])) }
                         : e \in Embedded(p, n - 1) }
                 : p \in PoolIds }

RECURSIVE Weight(_)
Weight(pools) ==
    IF Len(pools) = 0 THEN 0
    ELSE 1 + Len(pools[1].poolMembers) + Len(pools[1].poolDistributors) + Weight(Tail(pools))

AllMemberRecs == UNION { MemberRecs(p) : p \in PoolIds }
AllDistributorRecs == UNION { DistributorRecs(p) : p \in PoolIds }

InitWellFormed ==
    \E pools \in SelectedPoolSeqs(MaxRecords) :
      \E nA \in 0..(MaxRecords - Weight(pools)) :
        \E nM \in 0..(MaxRecords - Weight(pools) - nA) :
          \E nD \in 0..(MaxRecords - Weight(pools) - nA - nM) :
            \E nS \in 0..(MaxRecords - Weight(pools) - nA - nM - nD) :
              \E accounts \in SeqsOf(SelectedAccountRecs, nA),
                 members \in SeqsOf(AllMemberRecs, nM),
                 distributors \in SeqsOf(AllDistributorRecs, nD),
                 streams \in SeqsOf(StreamRecs, nS),
                 meta \in {Meta, NoMeta} :
                data = Snapshot(accounts, pools, members, distributors, streams, meta)

\* --- one membership, over the units, flow rates and total units
InitShare ==
    \E u \in {"0", "2", "3", "50", NotANumber},
       f \in {"-7", "0", "7", "1000", NotANumber},
       t \in {"0", "3", "200", NotANumber} :
        data = Snapshot(<<>>, <<>>, <<Member(Pool(3, f, t, S1), 1, u, S2)>>, <<>>, <<>>, Meta)

\* --- one selected account, over its per-token balance snapshots
InitAccount ==
    \E n \in 0..MaxSnapshots :
      \E snaps \in SeqsOf({S1, S2, S3, SBad}, n), own \in {S1, S3} :
        data = Snapshot(<<SelectedAccount(1, FALSE, own, snaps)>>, <<>>, <<>>, <<>>, <<>>, Meta)

\* --- one record with a field that is no number
InitMalformed ==
    \/ data = Snapshot(<<>>, <<>>, <<>>, <<>>, <<Stream(1, 2, 1, NotANumber, S1)>>, Meta)
    \/ data = Snapshot(<<>>, <<>>, <<>>, <<>>, <<Stream(1, 2, 1, "100", SBad)>>, Meta)
    \/ data = Snapshot(<<>>, <<>>, <<>>, <<Distributor(PoolOf(3), 1, NotANumber, S1)>>, <<>>, Meta)
    \/ data = Snapshot(<<>>, <<>>, <<>>, <<Distributor(PoolOf(3), 1, "5", SBad)>>, <<>>, Meta)
    \/ data = Snapshot(<<>>, <<>>, <<Member(Pool(3, "5", "2", SBad), 1, "2", S1)>>, <<>>, <<>>, Meta)
    \/ data = Snapshot(<<>>, <<SelectedPool(Pool(3, "5", "2", S1), <<>>,
                              <<Distributor(Pool(3, "5", "2", S1), 1, NotANumber, S1)>>)>>,
                       <<>>, <<>>, <<>>, Meta)

Init ==
    /\ InitWellFormed \/ InitShare \/ InitAccount \/ InitMalformed
    /\ pc = "mapNodes"
    /\ nodesButRedundant = <<>>
    /\ nodes = <<>>
    /\ edgesButRedundant = <<>>
    /\ edges = <<>>
    /\ latestBlock = <<>>

(***************************************************************************)
(* dataMapper: the object literal evaluates nodes, edges and latestBlock   *)
(* in this order; an exception leaves no result.                           *)
(***************************************************************************)
\* fromUnixTime(seconds): the Date of that instant, in epoch milliseconds
fromUnixTime(seconds) == seconds * 1000

MapNodes ==
    /\ pc = "mapNodes"
    /\ nodesButRedundant' = mapNodesButRedundant(data)
    /\ nodes' = uniqMergedNodes(mapNodesButRedundant(data))
    /\ pc' = "mapEdges"
    /\ UNCHANGED <<data, edgesButRedundant, edges, latestBlock>>

MapEdges ==
    /\ pc = "mapEdges"
    /\ ~mapEdgesThrows(data)
    /\ edgesButRedundant' = mapEdgesButRedundant(data)
    /\ edges' = edgesWithFullData(uniqEdges(mapEdgesButRedundant(data)))
    /\ pc' = "latestBlock"
    /\ UNCHANGED <<data, nodesButRedundant, nodes, latestBlock>>

\* BigInt(...) of a string that is no integer: SyntaxError
MapEdgesThrows ==
    /\ pc = "mapEdges"
    /\ mapEdgesThrows(data)
    /\ pc' = "thrown"
    /\ UNCHANGED <<data, nodesButRedundant, nodes, edgesButRedundant, edges, latestBlock>>

LatestBlock ==
    /\ pc = "latestBlock"
    /\ data._meta # NoMeta
    /\ latestBlock' = << [number |-> Int_(data._meta.block.number),
                          timestamp |-> fromUnixTime(data._meta.block.timestamp)] >>
    /\ pc' = "returned"
    /\ UNCHANGED <<data, nodesButRedundant, nodes, edgesButRedundant, edges>>

\* data._meta!.block of an absent _meta: TypeError
LatestBlockThrows ==
    /\ pc = "latestBlock"
    /\ data._meta = NoMeta
    /\ pc' = "thrown"
    /\ UNCHANGED <<data, nodesButRedundant, nodes, edgesButRedundant, edges, latestBlock>>

Next == MapNodes \/ MapEdges \/ MapEdgesThrows \/ LatestBlock \/ LatestBlockThrows

Spec == Init /\ [][Next]_vars

(***************************************************************************)
(* Properties                                                              *)
(***************************************************************************)
NodeIndex == 1..Len(nodes)
EdgeIndex == 1..Len(edges)

\* mapNodes has run
NodesMapped == pc # "mapNodes"

\* mapEdges has run and has not thrown
EdgesMapped == pc \in {"latestBlock", "returned"} \/ (pc = "thrown" /\ ~mapEdgesThrows(data))

\* the nodes of the output with id a
NodesOf(a) == { n \in NodeIndex : nodes[n].id = a }

\* C1: no two nodes of the node list have the same id.
C1_NodeUniqueness ==
    \A i, j \in NodeIndex : i # j => nodes[i].id # nodes[j].id

\* an account that is selected and also the sender of a stream, among other nodes
C1_Witness ==
    /\ pc = "returned"
    /\ Len(data.selectedAccounts) >= 1 /\ Len(data.streams) >= 1
    /\ data.selectedAccounts[1].id = data.streams[1].sender.id
    /\ Len(nodesButRedundant) = 3
    /\ Len(nodes) = 2

\* the raw relations that give edges, each with the key and the flow rate of its edge
RawRelations(d) ==
    [i \in 1..Len(allPoolMembers(d)) |->
        LET x == allPoolMembers(d)[i]
        IN  [key |-> <<x.pool.token.id, x.pool.id, x.account.id>>,
             flowRate |-> IF BigInt(x.units) = 0 THEN 0
                          ELSE BigIntDiv(BigInt(x.pool.flowRate) * BigInt(x.pool.totalUnits),
                                         BigInt(x.units))]]
    \o [i \in 1..Len(d.streams) |->
        LET x == d.streams[i]
        IN  [key |-> <<x.token.id, x.sender.id, x.receiver.id>>,
             flowRate |-> BigInt(x.currentFlowRate)]]
    \o [i \in 1..Len(allPoolDistributors(d)) |->
        LET x == allPoolDistributors(d)[i]
        IN  [key |-> <<x.pool.token.id, x.account.id, x.pool.id>>,
             flowRate |-> BigInt(x.flowRate)]]

RECURSIVE SumFlow(_, _)
SumFlow(rel, I) ==
    IF I = {} THEN 0
    ELSE LET i == CHOOSE x \in I : TRUE IN rel[i].flowRate + SumFlow(rel, I \ {i})

Endpoints(e) == {edges[e].source, edges[e].target}

\* C3: length is the number of output edges with the same unordered pair of
\* endpoints, index lies in [0, length) and differs from the index of every
\* other edge with that pair.
C3_ParallelEdgeMetadata ==
    \A e \in EdgeIndex :
        LET same == { f \in EdgeIndex : Endpoints(f) = Endpoints(e) }
        IN  /\ edges[e].data.something.length = Cardinality(same)
            /\ edges[e].data.something.index \in 0..(edges[e].data.something.length - 1)
            /\ \A f \in same \ {e} :
                 edges[f].data.something.index # edges[e].data.something.index

\* a stream A->B of rate 100 and a stream B->A of rate 30 on one token: two
\* edges of length 2 with the indices 0 and 1
C3_Witness ==
    /\ pc = "returned"
    /\ Len(edges) = 2
    /\ edges[1].source = edges[2].target /\ edges[1].target = edges[2].source
    /\ edges[1].data.token = edges[2].data.token
    /\ edges[1].data.flowRate = 100 /\ edges[2].data.flowRate = 30
    /\ edges[1].data.something = [length |-> 2, index |-> 0]
    /\ edges[2].data.something = [length |-> 2, index |-> 1]

\* address a has a node, and every node of a has the flags
HasNodeWith(a, isPool, isSuperApp, isSelected) ==
    /\ NodesOf(a) # {}
    /\ \A n \in NodesOf(a) :
         /\ isPool => nodes[n].data.isPool
         /\ isSuperApp => nodes[n].data.isSuperApp
         /\ isSelected => nodes[n].data.isSelected

\* C4: a flag (isPool, isSuperApp, isSelected) that a contributing record of
\* an address sets is set in the node of the address; a pool of selectedPools
\* has a node with isSelected.
C4_FlagMonotonicity ==
    NodesMapped =>
      /\ \A i \in 1..Len(data.selectedAccounts) :
           LET x == data.selectedAccounts[i] IN HasNodeWith(x.id, FALSE, x.isSuperApp, TRUE)
      /\ \A i \in 1..Len(data.selectedPools) :
           HasNodeWith(data.selectedPools[i].id, TRUE, FALSE, TRUE)
      /\ \A i \in 1..Len(allPoolMembers(data)) :
           LET x == allPoolMembers(data)[i]
           IN  /\ HasNodeWith(x.pool.id, TRUE, FALSE, FALSE)
               /\ HasNodeWith(x.account.id, FALSE, x.account.isSuperApp, FALSE)
      /\ \A i \in 1..Len(allPoolDistributors(data)) :
           LET x == allPoolDistributors(data)[i]
           IN  /\ HasNodeWith(x.pool.id, TRUE, FALSE, FALSE)
               /\ HasNodeWith(x.account.id, FALSE, x.account.isSuperApp, FALSE)
      /\ \A i \in 1..Len(data.streams) :
           LET x == data.streams[i]
           IN  /\ HasNodeWith(x.sender.id, FALSE, x.sender.isSuperApp, FALSE)
               /\ HasNodeWith(x.receiver.id, FALSE, x.receiver.isSuperApp, FALSE)

StampsParse(x) ==
    /\ IsDecimal(x.createdAtBlockNumber) /\ IsDecimal(x.createdAtTimestamp)
    /\ IsDecimal(x.updatedAtBlockNumber) /\ IsDecimal(x.updatedAtTimestamp)

\* every node of address a is created no later and updated no earlier than x
Bounds(a, x) ==
    \A n \in NodesOf(a) :
        /\ NumLeq(nodes[n].data.createdAtBlockNumber, Number(x.createdAtBlockNumber))
        /\ NumLeq(nodes[n].data.createdAtTimestamp, Number(x.createdAtTimestamp))
        /\ NumLeq(Number(x.updatedAtBlockNumber), nodes[n].data.updatedAtBlockNumber)
        /\ NumLeq(Number(x.updatedAtTimestamp), nodes[n].data.updatedAtTimestamp)

\* every block number and timestamp of the snapshot is a decimal string
AllStampsParse(d) ==
    /\ \A i \in 1..Len(d.selectedAccounts) :
         /\ StampsParse(d.selectedAccounts[i])
         /\ \A k \in 1..Len(d.selectedAccounts[i].accountTokenSnapshots) :
              StampsParse(d.selectedAccounts[i].accountTokenSnapshots[k])
    /\ \A i \in 1..Len(d.selectedPools) : StampsParse(d.selectedPools[i])
    /\ \A i \in 1..Len(allPoolMembers(d)) :
         StampsParse(allPoolMembers(d)[i]) /\ StampsParse(allPoolMembers(d)[i].pool)
    /\ \A i \in 1..Len(allPoolDistributors(d)) :
         StampsParse(allPoolDistributors(d)[i]) /\ StampsParse(allPoolDistributors(d)[i].pool)
    /\ \A i \in 1..Len(d.streams) : StampsParse(d.streams[i])

\* C5: a node is created no later, and updated no earlier, than every record
\* that contributes to it: the balance snapshots of a selected account (the
\* account itself when it has none), a pool, a membership or distributorship
\* of the account, a stream of the sender and receiver.  Stated for the
\* snapshots whose block numbers and timestamps all parse.
C5_TimestampBounds ==
    (NodesMapped /\ AllStampsParse(data)) =>
      /\ \A i \in 1..Len(data.selectedAccounts) :
           LET x == data.selectedAccounts[i]
           IN  IF Len(x.accountTokenSnapshots) = 0 THEN Bounds(x.id, x)
               ELSE \A k \in 1..Len(x.accountTokenSnapshots) :
                       Bounds(x.id, x.accountTokenSnapshots[k])
      /\ \A i \in 1..Len(data.selectedPools) :
           Bounds(data.selectedPools[i].id, data.selectedPools[i])
      /\ \A i \in 1..Len(allPoolMembers(data)) :
           LET x == allPoolMembers(data)[i]
           IN  Bounds(x.pool.id, x.pool) /\ Bounds(x.account.id, x)
      /\ \A i \in 1..Len(allPoolDistributors(data)) :
           LET x == allPoolDistributors(data)[i]
           IN  Bounds(x.pool.id, x.pool) /\ Bounds(x.account.id, x)
      /\ \A i \in 1..Len(data.streams) :
           LET x == data.streams[i]
           IN  Bounds(x.sender.id, x) /\ Bounds(x.receiver.id, x)

\* C6: with no _meta, dataMapper does not fail (the other fields being well
\* formed): it returns nodes and edges, without latestBlock.
C6_MissingMetaIsNoError ==
    (data._meta = NoMeta /\ ~mapEdgesThrows(data)) => pc # "thrown"

\* some numeric field of the snapshot is a string that is no integer
HasUnparseableField(d) ==
    \/ ~AllStampsParse(d)
    \/ \E i \in 1..Len(allPoolMembers(d)) :
         LET x == allPoolMembers(d)[i]
         IN  ~IsDecimal(x.units) \/ ~IsDecimal(x.pool.flowRate) \/ ~IsDecimal(x.pool.totalUnits)
    \/ \E i \in 1..Len(allPoolDistributors(d)) :
         LET x == allPoolDistributors(d)[i]
         IN  ~IsDecimal(x.flowRate) \/ ~IsDecimal(x.pool.flowRate) \/ ~IsDecimal(x.pool.totalUnits)
    \/ \E i \in 1..Len(d.streams) : ~IsDecimal(d.streams[i].currentFlowRate)

\* C7: a snapshot with a numeric field that does not parse gives no result.
C7_UnparseableFieldIsFatal ==
    HasUnparseableField(data) => pc # "returned"

\* q is a / b truncated toward zero (b > 0)
IsTruncatedQuotient(q, a, b) ==
    LET abs(n) == IF n >= 0 THEN n ELSE -n
    IN  /\ abs(q) * b <= abs(a)
        /\ abs(a) < (abs(q) + 1) * b
        /\ (a >= 0 => q >= 0)
        /\ (a <= 0 => q <= 0)

IsMin(m, s) == (\E k \in 1..Len(s) : s[k] = m) /\ (\A k \in 1..Len(s) : NumLeq(m, s[k]))
\* m is the greatest of the numbers s
IsMax(m, s) == (\E k \in 1..Len(s) : s[k] = m) /\ (\A k \in 1..Len(s) : NumLeq(s[k], m))

\* C9: the candidate of a selected account has the least creation and the
\* greatest update block and timestamp of the account's balance snapshots, and
\* the account's own four fields when it has no snapshot.  Stated for the
\* snapshots whose block numbers and timestamps all parse.
C9_AccountStamps ==
    (NodesMapped /\ AllStampsParse(data)) =>
      \A i \in 1..Len(data.selectedAccounts) :
        LET x == data.selectedAccounts[i]
            c == nodesButRedundant[i].data
            snaps == x.accountTokenSnapshots
        IN  IF Len(snaps) = 0
            THEN /\ c.createdAtBlockNumber = Number(x.createdAtBlockNumber)
                 /\ c.createdAtTimestamp = Number(x.createdAtTimestamp)
                 /\ c.updatedAtBlockNumber = Number(x.updatedAtBlockNumber)
                 /\ c.updatedAtTimestamp = Number(x.updatedAtTimestamp)
            ELSE /\ IsMin(c.createdAtBlockNumber, Map(snaps, LAMBDA y : Number(y.createdAtBlockNumber)))
                 /\ IsMin(c.createdAtTimestamp, Map(snaps, LAMBDA y : Number(y.createdAtTimestamp)))
                 /\ IsMax(c.updatedAtBlockNumber, Map(snaps, LAMBDA y : Number(y.updatedAtBlockNumber)))
                 /\ IsMax(c.updatedAtTimestamp, Map(snaps, LAMBDA y : Number(y.updatedAtTimestamp)))

\* C10: the source and the target of every edge are ids of nodes.
C10_EdgeEndpointsAreNodes ==
    EdgesMapped =>
      \A e \in EdgeIndex : NodesOf(edges[e].source) # {} /\ NodesOf(edges[e].target) # {}

\* a selected pool whose only relation is an embedded membership: the edge
\* pool->member and the nodes of both
C10_Witness ==
    /\ pc = "returned"
    /\ Len(data.selectedPools) = 1
    /\ Len(data.selectedPools[1].poolMembers) = 1
    /\ Len(data.poolMembers) = 0 /\ Len(data.poolDistributors) = 0 /\ Len(data.streams) = 0
    /\ Len(edges) = 1
    /\ Len(nodes) = 2

====
